---------------------------- MODULE Spec2Model ----------------------------
(***************************************************************************)
(* A model of the OrderDesk datastore adapter                              *)
(* (src/functions/datastore-integration-orderdesk/DataStore.js).           *)
(*                                                                         *)
(* JavaScript values are tagged records: the tag t names the type and a    *)
(* type-specific field carries the payload.  Objects are maps from field   *)
(* names to values; an absent property is a name outside the map's domain. *)
(* Objects a caller hands over by reference live in a heap (address ->     *)
(* object), so that a write through an alias is visible to the caller.     *)
(***************************************************************************)
EXTENDS Integers, Sequences, FiniteSets, TLC

VARIABLES
    config,     \* the configuration module the adapter requires (config.js)
    adapter,    \* the DataStore instance: construction state, domain, api, credentials
    calls,      \* call id -> the invocation of a public operation running under that id
    vItem,      \* argument of a direct validateInventoryItem call
    vResult     \* whether that call has returned, and its return value

vars == <<config, adapter, calls, vItem, vResult>>

-----------------------------------------------------------------------------
(* Bounds of the model *)

\* concurrent invocations in SpecConc
MaxCalls == 3
\* longest item array handed to updateInventoryItems
MaxItems == 2
\* longest code array handed to fetchInventoryItems
MaxCodes == 2

-----------------------------------------------------------------------------
(* JavaScript values *)

Undef == [t |-> "undefined"]
Null == [t |-> "null"]
NaN == [t |-> "NaN"]
Bool(b) == [t |-> "boolean", b |-> b]
Num(n) == [t |-> "number", n |-> n]
Str(s) == [t |-> "string", s |-> s]
\* a string kept as its sequence of characters (strings the code scans)
Chars(cs) == [t |-> "chars", cs |-> cs]
Obj(fields) == [t |-> "object", o |-> fields]
Arr(elems) == [t |-> "array", a |-> elems]
Ref(addr) == [t |-> "ref", r |-> addr]

\* the empty object literal {}
EmptyMap == [f \in {} |-> Undef]

\* ToBoolean: undefined, null, false, 0, NaN and "" are falsy, all else truthy
Truthy(v) ==
    CASE v.t = "undefined" -> FALSE
      [] v.t = "null" -> FALSE
      [] v.t = "NaN" -> FALSE
      [] v.t = "boolean" -> v.b
      [] v.t = "number" -> v.n # 0
      [] v.t = "string" -> v.s # ""
      [] v.t = "chars" -> v.cs # <<>>
      [] OTHER -> TRUE

\* a && b, a || b: the operand that decides the result, not a boolean
JsAnd(a, b) == IF Truthy(a) THEN b ELSE a
JsOr(a, b) == IF Truthy(a) THEN a ELSE b

\* a === b on primitives (NaN equals nothing, itself included)
StrictEq(a, b) ==
    IF a.t = "NaN" \/ b.t = "NaN" \/ a.t # b.t THEN Bool(FALSE) ELSE Bool(a = b)

\* the object v denotes: v itself, or the heap object it refers to
Deref(h, v) == IF v.t = "ref" THEN h[v.r] ELSE v

\* property read o.f on an object: undefined when the property is absent
Get(obj, f) == IF f \in DOMAIN obj.o THEN obj.o[f] ELSE Undef

\* a property read throws TypeError on undefined and null
CanRead(v) == v.t \notin {"undefined", "null"}

-----------------------------------------------------------------------------
(* validateInventoryItem *)

validateInventoryItemNaive(item) ==
    Truthy(JsAnd(Get(item, "id"), JsAnd(Get(item, "name"), JsAnd(Get(item, "code"),
        JsAnd(Get(item, "price"), Get(item, "stock"))))))

validateInventoryItem(item) ==
    Truthy(JsAnd(Get(item, "id"), JsAnd(Get(item, "name"), JsAnd(Get(item, "code"),
        JsAnd(JsOr(Get(item, "price"), StrictEq(Get(item, "price"), Num(0))),
              JsOr(Get(item, "stock"), StrictEq(Get(item, "stock"), Num(0))))))))

\* an object literal with the given properties; Undef in a slot leaves the
\* property out
ItemOf(id, name, code, price, stock) ==
    LET all == [id |-> id, name |-> name, code |-> code, price |-> price, stock |-> stock]
        present == {f \in DOMAIN all : all[f] # Undef}
    IN  Obj([f \in present |-> all[f]])

IdValues == {Undef, Null, Str(""), Str("1"), Num(0), Num(7)}
NameValues == {Undef, Str(""), Str("A")}
CodeValues == {Undef, Str(""), Str("SKU1")}
AmountValues ==
    {Undef, Null, NaN, Bool(FALSE), Bool(TRUE), Str(""), Str("abc"), Num(0), Num(5)}

ValidatorInputs ==
    {ItemOf(i, n, c, p, s) : i \in IdValues, n \in NameValues, c \in CodeValues,
                             p \in AmountValues, s \in AmountValues}

Validate ==
    /\ ~vResult.returned
    /\ vResult' = [returned |-> TRUE, value |-> validateInventoryItem(vItem)]
    /\ UNCHANGED <<config, adapter, calls, vItem>>

-----------------------------------------------------------------------------
(* Credentials: parseConfigCredentials, setCredentials, the constructor *)

Digit == {"0", "1", "2", "3", "4", "5", "6", "7", "8", "9"}
Upper == {"A", "B", "C", "D", "E", "F", "G", "H", "I", "J", "K", "L", "M",
          "N", "O", "P", "Q", "R", "S", "T", "U", "V", "W", "X", "Y", "Z"}
Lower == {"a", "b", "c", "d", "e", "f", "g", "h", "i", "j", "k", "l", "m",
          "n", "o", "p", "q", "r", "s", "t", "u", "v", "w", "x", "y", "z"}
Alnum == Upper \cup Lower \cup Digit

\* the literals of /Store ID (\d{5}) API Key ([A-Za-z0-9]+)$/
StoreIdLit == <<"S", "t", "o", "r", "e", " ", "I", "D", " ">>
ApiKeyLit == <<" ", "A", "P", "I", " ", "K", "e", "y", " ">>

\* the pattern tried at position i of cs: the match array [whole, group 1,
\* group 2], or null.  The greedy key run is followed by $, so it has to
\* reach the end of the input.
RegexMatchAt(cs, i) ==
    LET n == Len(cs)
    IN  IF /\ i + 23 <= n
           /\ SubSeq(cs, i, i + 8) = StoreIdLit
           /\ \A j \in (i + 9)..(i + 13) : cs[j] \in Digit
           /\ SubSeq(cs, i + 14, i + 22) = ApiKeyLit
           /\ \A j \in (i + 23)..n : cs[j] \in Alnum
        THEN Arr(<<Chars(SubSeq(cs, i, n)),
                   Chars(SubSeq(cs, i + 9, i + 13)),
                   Chars(SubSeq(cs, i + 23, n))>>)
        ELSE Null

\* String.prototype.match with a non-global regex: the leftmost match
RegexMatch(cs) ==
    LET hits == {i \in 1..Len(cs) : RegexMatchAt(cs, i) # Null}
    IN  IF hits = {} THEN Null
        ELSE RegexMatchAt(cs, CHOOSE i \in hits : \A k \in hits : i <= k)

parseConfigCredentialsDiscreteFirst(cfg) ==
    LET d == cfg.datastore.provider.orderDesk
        rawCredentials == cfg.datastore.credentials
        matched == IF Truthy(rawCredentials) THEN RegexMatch(rawCredentials.cs) ELSE Undef
    IN  IF Truthy(d.storeId) /\ Truthy(d.apiKey) THEN [id |-> d.storeId, key |-> d.apiKey]
        ELSE IF Truthy(matched) THEN [id |-> matched.a[2], key |-> matched.a[3]]
        ELSE [id |-> d.storeId, key |-> d.apiKey]

parseConfigCredentials(cfg) ==
    LET rawCredentials == cfg.datastore.credentials
        matched == IF Truthy(rawCredentials) THEN RegexMatch(rawCredentials.cs) ELSE Undef
    IN  IF Truthy(matched) /\ Len(matched.a) = 3
        THEN [id |-> matched.a[2], key |-> matched.a[3]]
        ELSE [id |-> cfg.datastore.provider.orderDesk.storeId,
              key |-> cfg.datastore.provider.orderDesk.apiKey]

MissingCredentialsMessage ==
    "Environment variables for OrderDesk store id and/or API key are missing."

\* setCredentials checks only that the key is there
setCredentialsKeyOnly(cfg) ==
    LET credentials == parseConfigCredentials(cfg)
    IN  IF ~Truthy(credentials.key)
        THEN [throws |-> TRUE, error |-> MissingCredentialsMessage, credentials |-> Undef]
        ELSE [throws |-> FALSE, error |-> "", credentials |-> credentials]

\* setCredentials: throws, or the value it stores in this.credentials
setCredentials(cfg) ==
    LET credentials == parseConfigCredentials(cfg)
    IN  IF ~Truthy(credentials.key) \/ ~Truthy(credentials.id)
        THEN [throws |-> TRUE, error |-> MissingCredentialsMessage, credentials |-> Undef]
        ELSE [throws |-> FALSE, error |-> "", credentials |-> credentials]

\* new DataStore(): an exception leaves the caller without an instance
Construct ==
    /\ adapter.state = "new"
    /\ LET r == setCredentials(config)
       IN  adapter' = [state |-> IF r.throws THEN "failed" ELSE "ready",
                       domain |-> "app.orderdesk.me",
                       api |-> "api/v2/",
                       credentials |-> r.credentials,
                       error |-> r.error]
    /\ UNCHANGED <<config, calls, vItem, vResult>>

-----------------------------------------------------------------------------
(* Request building, strings and JSON *)

\* `https://${this.domain}/${this.api}${path}`
buildEndpoint(a, path) == "https://" \o a.domain \o "/" \o a.api \o path

getDefaultHeader(a) ==
    ("Content-Type" :> Str("application/json"))
        @@ ("ORDERDESK-API-KEY" :> a.credentials.key)
        @@ ("ORDERDESK-STORE-ID" :> a.credentials.id)

DigitStr == <<"0", "1", "2", "3", "4", "5", "6", "7", "8", "9">>

RECURSIVE NatToStr(_)
NatToStr(n) == IF n < 10 THEN DigitStr[n + 1] ELSE NatToStr(n \div 10) \o DigitStr[(n % 10) + 1]

\* ToString, as a template literal applies it
ToStr(v) ==
    CASE v.t = "undefined" -> "undefined"
      [] v.t = "null" -> "null"
      [] v.t = "NaN" -> "NaN"
      [] v.t = "boolean" -> IF v.b THEN "true" ELSE "false"
      [] v.t = "number" -> NatToStr(v.n)
      [] v.t = "string" -> v.s
      [] v.t = "array" -> "[array]"
      [] OTHER -> "[object Object]"

\* Array.prototype.join on an array of character strings
RECURSIVE JoinChars(_, _)
JoinChars(elems, sep) ==
    IF elems = <<>> THEN <<>>
    ELSE IF Len(elems) = 1 THEN elems[1]
    ELSE elems[1] \o sep \o JoinChars(Tail(elems), sep)

\* Array.prototype.join on an array of objects: each is "[object Object]"
RECURSIVE JoinToStr(_, _)
JoinToStr(elems, sep) ==
    IF elems = <<>> THEN ""
    ELSE IF Len(elems) = 1 THEN ToStr(elems[1])
    ELSE ToStr(elems[1]) \o sep \o JoinToStr(Tail(elems), sep)

\* the application/x-www-form-urlencoded byte serializer, on the characters
\* the model uses: alphanumerics and * - . _ stay, space is +, the rest is
\* percent-encoded
PercentCode ==
    ("," :> <<"%", "2", "C">>) @@ ("&" :> <<"%", "2", "6">>)
        @@ ("=" :> <<"%", "3", "D">>) @@ ("/" :> <<"%", "2", "F">>)

FormEncodeChar(ch) ==
    IF ch \in Alnum \cup {"*", "-", ".", "_"} THEN <<ch>>
    ELSE IF ch = " " THEN <<"+">>
    ELSE PercentCode[ch]

RECURSIVE FormEncode(_)
FormEncode(cs) == IF cs = <<>> THEN <<>> ELSE FormEncodeChar(Head(cs)) \o FormEncode(Tail(cs))

\* new URLSearchParams({code: value}), converted to a string by +
URLSearchParamsCode(value) == <<"c", "o", "d", "e", "=">> \o FormEncode(value)

\* JSON.stringify's view of a value: references followed, properties whose
\* value is undefined left out, undefined array entries and NaN written null
RECURSIVE Jsonify(_, _)
Jsonify(h, v) ==
    CASE v.t = "ref" -> Jsonify(h, h[v.r])
      [] v.t = "object" ->
            LET kept == {f \in DOMAIN v.o : Deref(h, v.o[f]).t # "undefined"}
            IN  Obj([f \in kept |-> Jsonify(h, v.o[f])])
      [] v.t = "array" ->
            Arr([i \in 1..Len(v.a) |->
                    IF v.a[i].t = "undefined" THEN Null ELSE Jsonify(h, v.a[i])])
      [] v.t = "NaN" -> Null
      [] OTHER -> v

JSONStringify(h, v) == [t |-> "json", doc |-> Jsonify(h, v)]

\* new Error(message, options): only an options object's cause is kept
NewError(message, options) ==
    [name |-> "Error", message |-> message,
     cause |-> IF options.t = "object" THEN Get(options, "cause") ELSE Undef]

TypeError(message) == [name |-> "TypeError", message |-> message, cause |-> Undef]

NoError == [name |-> "", message |-> "", cause |-> Undef]

-----------------------------------------------------------------------------
(* The heap: a sequence of objects, an object's address being its index *)

Alloc(h, obj) == [heap |-> Append(h, obj), ref |-> Ref(Len(h) + 1)]

\* the source is aliased instead of copied, so a later write reaches it
SpreadAliased(h, src) ==
    IF src.t = "ref" THEN [heap |-> h, ref |-> src] ELSE Alloc(h, Obj(EmptyMap))

\* {...src}: a new object holding src's own properties (none for undefined)
Spread(h, src) ==
    IF src.t = "ref" /\ h[src.r].t = "object" THEN Alloc(h, h[src.r])
    ELSE IF src.t = "object" THEN Alloc(h, src)
    ELSE Alloc(h, Obj(EmptyMap))

\* delete ref.f
DeleteProp(h, ref, f) ==
    [h EXCEPT ![ref.r] = Obj([g \in DOMAIN h[ref.r].o \ {f} |-> h[ref.r].o[g]])]

\* array[0]
First(arr) == IF Len(arr.a) > 0 THEN arr.a[1] ELSE Undef

-----------------------------------------------------------------------------
(* The public operations, each up to its first await *)

\* what fetch() is called with: the URL as the pieces + joins, and the options
Request(urlPieces, method, headers, body) ==
    [url |-> urlPieces, method |-> method, headers |-> headers, body |-> body]

fetchInventoryItems(a, items) ==
    LET codes == [i \in 1..Len(items.a) |-> items.a[i].cs]
    IN  [throws |-> FALSE, error |-> NoError, heap |-> <<>>, value |-> Undef,
         requests |-> <<Request(<<Str(buildEndpoint(a, "inventory-items")), Str("?"),
                                  Chars(URLSearchParamsCode(JoinChars(codes, <<",">>)))>>,
                                "GET", getDefaultHeader(a), Undef)>>]

InvalidItemsMessage == "Invalid inventory items for update"

\* the valid items are submitted and the invalid ones dropped
updateInventoryItemsPartial(a, items) ==
    LET valid == SelectSeq(items.a, LAMBDA i : validateInventoryItem(i))
    IN  [throws |-> FALSE, error |-> NoError, heap |-> <<>>, value |-> Undef,
         requests |-> <<Request(<<Str(buildEndpoint(a, "batch-inventory-items"))>>,
                                "PUT", getDefaultHeader(a), JSONStringify(<<>>, Arr(valid)))>>]

updateInventoryItems(a, items) ==
    LET invalid == SelectSeq(items.a, LAMBDA i : ~validateInventoryItem(i))
    IN  IF Len(invalid) # 0
        THEN [throws |-> TRUE,
              error |-> NewError(InvalidItemsMessage, Str(JoinToStr(invalid, ","))),
              heap |-> <<>>, value |-> Undef, requests |-> <<>>]
        ELSE [throws |-> FALSE, error |-> NoError, heap |-> <<>>, value |-> Undef,
              requests |-> <<Request(<<Str(buildEndpoint(a, "batch-inventory-items"))>>,
                                     "PUT", getDefaultHeader(a), JSONStringify(<<>>, items))>>]

Thrown(h, message) ==
    [throws |-> TRUE, error |-> TypeError(message), heap |-> h, value |-> Undef,
     requests |-> <<>>]

createOrder(a, h, bodyRef) ==
    LET body == h[bodyRef.r]
        embedded == Deref(h, Get(body, "_embedded"))
    IN  IF ~CanRead(embedded) THEN Thrown(h, "Cannot read properties of undefined")
        ELSE
        LET fxCustomer == Get(embedded, "fx:customer")
            fxShipment == IF Truthy(Get(embedded, "fx:shipments"))
                          THEN First(Deref(h, Get(embedded, "fx:shipments")))
                          ELSE Obj(EmptyMap)
            fxPayment == IF Truthy(Get(embedded, "fx:payments"))
                         THEN First(Deref(h, Get(embedded, "fx:payments")))
                         ELSE Obj(EmptyMap)
            fxItems == Get(embedded, "fx:items")
        IN  IF ~CanRead(fxCustomer) THEN Thrown(h, "Cannot read properties of undefined")
            ELSE
            LET cust == Deref(h, fxCustomer)
                customer == Alloc(h, Obj([first_name |-> Get(cust, "first_name"),
                                          last_name |-> Get(cust, "last_name")]))
                copied == Spread(customer.heap, fxShipment)
                shipping == copied.ref
                h2 == DeleteProp(copied.heap, shipping, "_links")
            IN  IF ~CanRead(fxPayment) THEN Thrown(h2, "Cannot read properties of undefined")
                ELSE
                LET pay == Deref(h2, fxPayment)
                    upToResponse == Obj(
                        [id |-> Get(body, "id"),
                         email |-> Get(body, "customer_email"),
                         customer |-> customer.ref,
                         shipping |-> shipping,
                         source_name |-> Str("Foxy.io"),
                         customer_id |-> Get(cust, "id"),
                         product_total |-> Get(body, "total_item_price"),
                         shipping_total |-> Get(body, "total_shipping"),
                         tax_total |-> Get(body, "total_tax"),
                         discount_total |-> Get(body, "total_discount"),
                         order_total |-> Get(body, "total_order"),
                         cc_number_masked |-> Get(pay, "cc_number_masked"),
                         cc_exp |-> Str(ToStr(Get(pay, "cc_exp_month")) \o "/"
                                            \o ToStr(Get(pay, "cc_exp_year"))),
                         processor_response |-> Get(pay, "processor_response")])
                    order == Alloc(h2, Obj(
                        [payment_sattus |-> Get(upToResponse, "status"),
                         payment_type |-> Get(pay, "cc_type"),
                         order_items |-> fxItems] @@ upToResponse.o))
                IN  [throws |-> FALSE, error |-> NoError, heap |-> order.heap,
                     value |-> order.ref,
                     requests |-> <<Request(<<Str(buildEndpoint(a, "orders"))>>, "POST",
                                            getDefaultHeader(a),
                                            JSONStringify(order.heap, order.ref))>>]

UpdateSourceTag == "Foxy-Orderdesk-Webhook"

\* the two derived properties are added only where the item has none
convertToCanonicalKeeping(h, itemRef) ==
    LET item == h[itemRef.r]
        derived == ("update_source" :> Str(UpdateSourceTag))
                       @@ ("inventory" :> Get(item, "stock"))
        made == Alloc(h, Obj(item.o @@ derived))
    IN  [throws |-> FALSE, error |-> NoError, heap |-> made.heap, value |-> made.ref,
         requests |-> <<>>]

convertToCanonical(h, itemRef) ==
    LET item == h[itemRef.r]
        derived == ("update_source" :> Str(UpdateSourceTag))
                       @@ ("inventory" :> Get(item, "stock"))
        made == Alloc(h, Obj(derived @@ item.o))
    IN  [throws |-> FALSE, error |-> NoError, heap |-> made.heap, value |-> made.ref,
         requests |-> <<>>]

-----------------------------------------------------------------------------
(* Invocations *)

NoResponse == [status |-> 0, valid |-> FALSE, doc |-> Undef]

Idle ==
    [op |-> "", pc |-> "idle", arg |-> Undef, heap0 |-> <<>>, heap |-> <<>>,
     made |-> Undef, requests |-> <<>>, response |-> NoResponse, result |-> Undef,
     error |-> NoError]

\* an operation runs to its first await (or to its return or throw) in one
\* step: r is what it did, h0 the heap it was called on
Begin(c, op, arg, h0, r) ==
    calls' = [calls EXCEPT ![c] =
        [op |-> op,
         pc |-> IF r.throws THEN "rejected"
                ELSE IF r.requests = <<>> THEN "returned" ELSE "awaitFetch",
         arg |-> arg, heap0 |-> h0, heap |-> r.heap, made |-> r.value,
         requests |-> r.requests, response |-> NoResponse,
         result |-> IF r.requests = <<>> THEN r.value ELSE Undef,
         error |-> r.error]]

Callable(c) == adapter.state = "ready" /\ calls[c].pc = "idle"

InvokeFetch(c, items) ==
    /\ Callable(c)
    /\ Begin(c, "fetchInventoryItems", items, <<>>, fetchInventoryItems(adapter, items))
    /\ UNCHANGED <<config, adapter, vItem, vResult>>

InvokeUpdate(c, items) ==
    /\ Callable(c)
    /\ Begin(c, "updateInventoryItems", items, <<>>, updateInventoryItems(adapter, items))
    /\ UNCHANGED <<config, adapter, vItem, vResult>>

\* p is a payload: the caller's heap and the reference it passes
InvokeCreateOrder(c, p) ==
    /\ Callable(c)
    /\ Begin(c, "createOrder", p.ref, p.heap, createOrder(adapter, p.heap, p.ref))
    /\ UNCHANGED <<config, adapter, vItem, vResult>>

InvokeConvert(c, p) ==
    /\ Callable(c)
    /\ Begin(c, "convertToCanonical", p.ref, p.heap, convertToCanonical(p.heap, p.ref))
    /\ UNCHANGED <<config, adapter, vItem, vResult>>

\* the failed request is issued again and the call keeps waiting
FetchRejectsRetrying(c) ==
    /\ calls[c].pc = "awaitFetch"
    /\ Len(calls[c].requests) < 3
    /\ calls' = [calls EXCEPT ![c].requests = Append(@, @[1])]
    /\ UNCHANGED <<config, adapter, vItem, vResult>>

\* the transport fails: the awaited fetch promise rejects, and so does the call
FetchRejects(c) ==
    /\ calls[c].pc = "awaitFetch"
    /\ calls' = [calls EXCEPT ![c].pc = "rejected",
                              ![c].error = [name |-> "FetchError",
                                            message |-> "request failed", cause |-> Undef]]
    /\ UNCHANGED <<config, adapter, vItem, vResult>>

\* a response of any status arrives; the operation goes on to response.json()
FetchResponds(c, resp) ==
    /\ calls[c].pc = "awaitFetch"
    /\ calls' = [calls EXCEPT ![c].pc = "awaitJson", ![c].response = resp]
    /\ UNCHANGED <<config, adapter, vItem, vResult>>

\* what the operation makes of the parsed body
Unwrap(op, doc) ==
    IF op # "fetchInventoryItems" THEN [throws |-> FALSE, value |-> doc]
    ELSE IF ~CanRead(doc) THEN [throws |-> TRUE, value |-> Undef]
    ELSE IF doc.t = "object" THEN [throws |-> FALSE, value |-> Get(doc, "inventory_items")]
    ELSE [throws |-> FALSE, value |-> Undef]

\* response.json() settles: a body that is not JSON rejects the call
JsonSettles(c) ==
    /\ calls[c].pc = "awaitJson"
    /\ LET resp == calls[c].response
           u == Unwrap(calls[c].op, resp.doc)
       IN  calls' =
             IF ~resp.valid
             THEN [calls EXCEPT ![c].pc = "rejected",
                                ![c].error = [name |-> "SyntaxError",
                                              message |-> "invalid json", cause |-> Undef]]
             ELSE IF u.throws
             THEN [calls EXCEPT ![c].pc = "rejected",
                                ![c].error =
                                    TypeError("Cannot read properties of null")]
             ELSE [calls EXCEPT ![c].pc = "resolved", ![c].result = u.value]
    /\ UNCHANGED <<config, adapter, vItem, vResult>>

\* the caller has taken the outcome; the slot serves its next call
Release(c) ==
    /\ calls[c].pc \in {"resolved", "rejected", "returned"}
    /\ calls' = [calls EXCEPT ![c] = Idle]
    /\ UNCHANGED <<config, adapter, vItem, vResult>>

NewAdapter ==
    [state |-> "new", domain |-> "", api |-> "", credentials |-> Undef, error |-> ""]

ConfigOf(combined, storeId, apiKey) ==
    [datastore |-> [credentials |-> combined,
                    provider |-> [orderDesk |-> [storeId |-> storeId, apiKey |-> apiKey]]]]

\* combined credential strings: prefix, "Store ID ", id part, " API Key ",
\* key part, suffix, and strings that are not of that shape at all
CredPrefixes ==
    {<<>>, <<"x">>, <<" ">>,
     StoreIdLit \o <<"9", "9", "9", "9", "9">> \o ApiKeyLit \o <<"o", "l", "d">> \o <<" ">>,
     StoreIdLit \o <<"9", "9", "9", "9", "9">> \o ApiKeyLit}
CredIdParts ==
    {<<"1", "2", "3", "4", "5">>, <<"0", "0", "0", "0", "0">>, <<"1", "2", "3", "4">>,
     <<"1", "2", "3", "4", "5", "6">>, <<"1", "2", "3", "4", "x">>, <<>>}
CredKeyParts ==
    {<<"a", "B", "9">>, <<"Z">>, <<"0">>, <<>>, <<"a", "-", "b">>, <<"k", " ", "k">>}
CredSuffixes == {<<>>, <<" ">>, <<"!">>}

CombinedStrings ==
    {p \o StoreIdLit \o i \o ApiKeyLit \o k \o s :
        p \in CredPrefixes, i \in CredIdParts, k \in CredKeyParts, s \in CredSuffixes}
    \cup {<<>>, <<"k", "e", "y">>, StoreIdLit, ApiKeyLit,
          <<"s", "t", "o", "r", "e", " ", "i", "d", " ", "1", "2", "3", "4", "5">>
              \o <<" ", "a", "p", "i", " ", "k", "e", "y", " ", "k">>}

DiscreteIds == {Undef, Chars(<<>>), Chars(<<"5", "4", "3", "2", "1">>)}
DiscreteKeys == {Undef, Chars(<<>>), Chars(<<"d", "k", "1">>)}

CredConfigs ==
    {ConfigOf(c, i, k) : c \in {Undef} \cup {Chars(cs) : cs \in CombinedStrings},
                         i \in DiscreteIds, k \in DiscreteKeys}

InitCred ==
    /\ config \in CredConfigs
    /\ adapter = NewAdapter
    /\ calls = <<>>
    /\ vItem = Obj(EmptyMap)
    /\ vResult = [returned |-> FALSE, value |-> FALSE]

NextCred == Construct

SpecCred == InitCred /\ [][NextCred]_vars

InitValidate ==
    /\ config = ConfigOf(Undef, Undef, Undef)
    /\ adapter = NewAdapter
    /\ calls = <<>>
    /\ vItem \in ValidatorInputs
    /\ vResult = [returned |-> FALSE, value |-> FALSE]

NextValidate == Validate

SpecValidate == InitValidate /\ [][NextValidate]_vars

-----------------------------------------------------------------------------
(* Inputs of the operations *)

SeqsUpTo(S, n) == UNION {[1..k -> S] : k \in 0..n}

ValidItem == ItemOf(Str("1"), Str("A"), Str("SKU1"), Num(5), Num(3))
ZeroItem == ItemOf(Str("2"), Str("B"), Str("SKU2"), Num(0), Num(0))
NoIdItem == ItemOf(Undef, Str("C"), Str("SKU3"), Num(1), Num(1))
TextPriceItem == ItemOf(Str("4"), Str("D"), Str("SKU4"), Str("abc"), Num(1))
NaNStockItem == ItemOf(Str("5"), Str("E"), Str("SKU5"), Num(1), NaN)

UpdateItems == {ValidItem, ZeroItem, NoIdItem, TextPriceItem, NaNStockItem}
UpdateArgs == {Arr(q) : q \in SeqsUpTo(UpdateItems, MaxItems)}
UpdateArgsConc == {Arr(<<ValidItem>>), Arr(<<ValidItem, NoIdItem>>)}

CodeSet == {<<"A", "1">>, <<"B", "2">>, <<"a", ",", "b">>, <<"X", " ", "Y">>}
FetchArgs == {Arr([i \in DOMAIN q |-> Chars(q[i])]) : q \in SeqsUpTo(CodeSet, MaxCodes)}
FetchArgsConc == {Arr(<<Chars(<<"A", "1">>), Chars(<<"B", "2">>)>>)}

\* a payload for convertToCanonical: the caller's item on the heap
ItemPayload(item) == [heap |-> <<item>>, ref |-> Ref(1)]

ConvertItems ==
    {ValidItem, ZeroItem, NoIdItem,
     Obj([id |-> Str("6"), code |-> Str("SKU6")]),
     Obj([id |-> Str("7"), stock |-> Num(3), update_source |-> Str("API")]),
     Obj([id |-> Str("8"), stock |-> Num(3), inventory |-> Num(9)]),
     Obj([id |-> Str("9"), inventory |-> Num(9), update_source |-> Str("API")]),
     Obj([id |-> Str("10"), stock |-> Num(4), inventory |-> Num(4),
          update_source |-> Str(UpdateSourceTag)])}
ConvertArgs == {ItemPayload(i) : i \in ConvertItems}
ConvertArgsConc == {ItemPayload(ValidItem)}

Customer == Obj([id |-> Num(77), first_name |-> Str("Ada"), last_name |-> Str("Byron"),
                 email |-> Str("ada@example.com")])
LinkedShipment ==
    Obj([city |-> Str("Paris"), _links |-> Obj([self |-> Str("https://api/shipments/1")])])
PlainShipment == Obj([city |-> Str("Lyon")])
CardPayment ==
    Obj([cc_number_masked |-> Str("xxxx4242"), cc_exp_month |-> Str("12"),
         cc_exp_year |-> Num(2030), processor_response |-> Str("ok"),
         cc_type |-> Str("visa")])
OrderItems == Arr(<<Obj([code |-> Str("SKU1"), quantity |-> Num(2)])>>)

Absent == [present |-> FALSE, entries |-> <<>>]
Present(entries) == [present |-> TRUE, entries |-> entries]

\* the caller's order payload laid out on a heap: the customer (when there is
\* one), the shipment entries, the payment entries, the items array and last
\* the body, whose _embedded refers to them
OrderPayload(hasCustomer, shipments, payments) ==
    LET hC == IF hasCustomer THEN <<Customer>> ELSE <<>>
        hS == hC \o shipments.entries
        hP == hS \o payments.entries
        hI == Append(hP, OrderItems)
        sRefs == [i \in 1..Len(shipments.entries) |-> Ref(Len(hC) + i)]
        pRefs == [i \in 1..Len(payments.entries) |-> Ref(Len(hS) + i)]
        embedded ==
            ("fx:items" :> Ref(Len(hI)))
                @@ (IF hasCustomer THEN "fx:customer" :> Ref(1) ELSE EmptyMap)
                @@ (IF shipments.present THEN "fx:shipments" :> Arr(sRefs) ELSE EmptyMap)
                @@ (IF payments.present THEN "fx:payments" :> Arr(pRefs) ELSE EmptyMap)
        body == Obj([id |-> Num(1001), customer_email |-> Str("ada@example.com"),
                     total_item_price |-> Num(40), total_shipping |-> Num(5),
                     total_tax |-> Num(4), total_discount |-> Num(0),
                     total_order |-> Num(49), status |-> Str("captured"),
                     _embedded |-> Obj(embedded)])
    IN  [heap |-> Append(hI, body), ref |-> Ref(Len(hI) + 1)]

ShipmentChoices ==
    {Absent, Present(<<>>), Present(<<LinkedShipment>>), Present(<<PlainShipment>>),
     Present(<<LinkedShipment, PlainShipment>>)}
PaymentChoices == {Absent, Present(<<>>), Present(<<CardPayment>>)}

CreateArgs ==
    {OrderPayload(c, s, p) : c \in BOOLEAN, s \in ShipmentChoices, p \in PaymentChoices}
CreateArgsConc ==
    {OrderPayload(TRUE, Present(<<LinkedShipment>>), Present(<<CardPayment>>)),
     OrderPayload(TRUE, Absent, Present(<<>>))}

\* what the vendor may answer: a body that parses to doc, or one that is not JSON
Responses ==
    {[status |-> 200, valid |-> TRUE,
      doc |-> Obj([inventory_items |-> Arr(<<ValidItem>>)])],
     [status |-> 200, valid |-> TRUE, doc |-> Obj([inventory_items |-> Arr(<<>>)])],
     [status |-> 200, valid |-> TRUE, doc |-> Obj([status |-> Str("success")])],
     [status |-> 401, valid |-> TRUE, doc |-> Obj([message |-> Str("Unauthorized")])],
     [status |-> 200, valid |-> TRUE, doc |-> Null],
     [status |-> 502, valid |-> FALSE, doc |-> Undef]}
ResponsesConc ==
    {[status |-> 200, valid |-> TRUE, doc |-> Obj([inventory_items |-> Arr(<<>>)])],
     [status |-> 502, valid |-> FALSE, doc |-> Undef]}

ValidCombined ==
    Chars(StoreIdLit \o <<"1", "2", "3", "4", "5">> \o ApiKeyLit \o <<"a", "B", "9">>)

Configs ==
    {ConfigOf(ValidCombined, Undef, Undef),
     ConfigOf(ValidCombined, Chars(<<"5", "4", "3", "2", "1">>), Chars(<<"d", "k", "1">>)),
     ConfigOf(Chars(<<"k", "e", "y">>), Chars(<<"5", "4", "3", "2", "1">>),
              Chars(<<"d", "k", "1">>)),
     ConfigOf(Undef, Chars(<<"5", "4", "3", "2", "1">>), Undef),
     ConfigOf(Undef, Chars(<<>>), Chars(<<"d", "k", "1">>)),
     ConfigOf(Undef, Undef, Undef)}

-----------------------------------------------------------------------------
(* One caller, one operation at a time *)

Init ==
    /\ config \in Configs
    /\ adapter = NewAdapter
    /\ calls = <<Idle>>
    /\ vItem = Obj(EmptyMap)
    /\ vResult = [returned |-> FALSE, value |-> FALSE]

Next ==
    \/ Construct
    \/ \E c \in DOMAIN calls, items \in FetchArgs : InvokeFetch(c, items)
    \/ \E c \in DOMAIN calls, items \in UpdateArgs : InvokeUpdate(c, items)
    \/ \E c \in DOMAIN calls, p \in CreateArgs : InvokeCreateOrder(c, p)
    \/ \E c \in DOMAIN calls, p \in ConvertArgs : InvokeConvert(c, p)
    \/ \E c \in DOMAIN calls : FetchRejects(c)
    \/ \E c \in DOMAIN calls, resp \in Responses : FetchResponds(c, resp)
    \/ \E c \in DOMAIN calls : JsonSettles(c)
    \/ \E c \in DOMAIN calls : Release(c)

Spec == Init /\ [][Next]_vars

(* Several callers at once on one adapter *)

InitConc ==
    /\ config = ConfigOf(ValidCombined, Undef, Undef)
    /\ adapter = NewAdapter
    /\ calls = [c \in 1..MaxCalls |-> Idle]
    /\ vItem = Obj(EmptyMap)
    /\ vResult = [returned |-> FALSE, value |-> FALSE]

NextConc ==
    \/ Construct
    \/ \E c \in DOMAIN calls, items \in FetchArgsConc : InvokeFetch(c, items)
    \/ \E c \in DOMAIN calls, items \in UpdateArgsConc : InvokeUpdate(c, items)
    \/ \E c \in DOMAIN calls, p \in CreateArgsConc : InvokeCreateOrder(c, p)
    \/ \E c \in DOMAIN calls, p \in ConvertArgsConc : InvokeConvert(c, p)
    \/ \E c \in DOMAIN calls : FetchRejects(c)
    \/ \E c \in DOMAIN calls, resp \in ResponsesConc : FetchResponds(c, resp)
    \/ \E c \in DOMAIN calls : JsonSettles(c)
    \/ \E c \in DOMAIN calls : Release(c)

SpecConc == InitConc /\ [][NextConc]_vars

-----------------------------------------------------------------------------
(* Properties *)

Began(c, op) == calls[c].op = op /\ calls[c].pc # "idle"

\* the caller's objects as they are now: the heap up to the size it had at the call
CallerHeap(c) == SubSeq(calls[c].heap, 1, Len(calls[c].heap0))

InvalidOf(items) == {i \in 1..Len(items.a) : ~validateInventoryItem(items.a[i])}

IsBatchPut(req) ==
    /\ req.method = "PUT"
    /\ req.url = <<Str("https://app.orderdesk.me/api/v2/batch-inventory-items")>>

\* C1: updateInventoryItems validates every item before any network
\* activity: a call with at least one invalid item is rejected and has issued
\* no request at all, and a call whose items all pass has issued exactly one
\* request, a PUT to batch-inventory-items whose body holds every item of the
\* input, in order.
C1_ValidateBeforeSend ==
    \A c \in DOMAIN calls :
        Began(c, "updateInventoryItems") =>
            LET items == calls[c].arg
                reqs == calls[c].requests
            IN  IF InvalidOf(items) # {}
                THEN /\ reqs = <<>>
                     /\ calls[c].pc = "rejected"
                     /\ calls[c].error.name = "Error"
                ELSE /\ Len(reqs) = 1
                     /\ IsBatchPut(reqs[1])
                     /\ reqs[1].body.t = "json"
                     /\ Len(reqs[1].body.doc.a) = Len(items.a)
                     /\ \A i \in 1..Len(items.a) :
                            reqs[1].body.doc.a[i] = Jsonify(<<>>, items.a[i])

C1_Witness ==
    \E c \in DOMAIN calls :
        /\ Began(c, "updateInventoryItems")
        /\ calls[c].arg = Arr(<<ValidItem, NoIdItem>>)
        /\ calls[c].pc = "rejected"
        /\ calls[c].requests = <<>>

\* C2: the error thrown for invalid items reports which items were invalid:
\* its content is more than the fixed message, either a message that differs
\* from it or a cause that carries the items.
C2_ErrorReportsInvalidItems ==
    \A c \in DOMAIN calls :
        (/\ Began(c, "updateInventoryItems")
         /\ InvalidOf(calls[c].arg) # {}
         /\ calls[c].pc = "rejected")
            => \/ calls[c].error.message # InvalidItemsMessage
               \/ CanRead(calls[c].error.cause)

\* the readings of the words of the validation rule
NonEmptyField(v) ==
    \/ v.t = "string" /\ v.s # ""
    \/ v.t = "number" /\ v.n # 0
IsNumber(v) == v.t = "number"
\* 0, a non-zero number, a non-empty string or true: every value that is not
\* undefined, null, false, NaN or ""
ZeroOrTruthy(v) ==
    \/ v.t = "number"
    \/ v.t = "string" /\ v.s # ""
    \/ v.t = "boolean" /\ v.b

\* C3 as stated: validateInventoryItem returns true exactly for the items
\* with a non-empty id, name and code and a price and a stock that are
\* numbers (0 included), so a price or stock that is not a number is
\* rejected.
C3_NumbersOnly ==
    vResult.returned =>
        (vResult.value <=>
            /\ NonEmptyField(Get(vItem, "id"))
            /\ NonEmptyField(Get(vItem, "name"))
            /\ NonEmptyField(Get(vItem, "code"))
            /\ IsNumber(Get(vItem, "price"))
            /\ IsNumber(Get(vItem, "stock")))

\* C3 amended: validateInventoryItem returns true exactly for the items
\* with a non-empty id, name and code and a price and a stock that are each
\* 0 or a truthy value: 0 and every other number but NaN are accepted, and so
\* are a non-empty string and true; undefined, null, "", false and NaN are
\* rejected.
C3_ZeroOrTruthy ==
    vResult.returned =>
        /\ vResult.value <=>
            /\ NonEmptyField(Get(vItem, "id"))
            /\ NonEmptyField(Get(vItem, "name"))
            /\ NonEmptyField(Get(vItem, "code"))
            /\ ZeroOrTruthy(Get(vItem, "price"))
            /\ ZeroOrTruthy(Get(vItem, "stock"))
        /\ vItem = ItemOf(Str("1"), Str("A"), Str("SKU1"), Num(0), Num(0)) => vResult.value
        /\ {"id", "name", "code"} \ DOMAIN vItem.o # {} => ~vResult.value

C3_Witness ==
    /\ vResult.returned
    /\ vResult.value
    /\ Get(vItem, "price") = Str("abc")
    /\ Get(vItem, "stock") = Num(0)

\* cs is p characters, then "Store ID ", five digits, " API Key " and a
\* non-empty alphanumeric run that ends the string
HasShapeAfter(cs, p) ==
    /\ Len(cs) >= p + 24
    /\ LET d == SubSeq(cs, p + 10, p + 14)
           k == SubSeq(cs, p + 24, Len(cs))
       IN  /\ cs = SubSeq(cs, 1, p) \o StoreIdLit \o d \o ApiKeyLit \o k
           /\ \A j \in 1..5 : d[j] \in Digit
           /\ \A j \in 1..Len(k) : k[j] \in Alnum

CombinedOf(cfg) == cfg.datastore.credentials
ShapePrefixes(cfg) ==
    IF CombinedOf(cfg).t # "chars" THEN {}
    ELSE {p \in 0..Len(CombinedOf(cfg).cs) : HasShapeAfter(CombinedOf(cfg).cs, p)}

DiscreteOf(cfg) ==
    [id |-> cfg.datastore.provider.orderDesk.storeId,
     key |-> cfg.datastore.provider.orderDesk.apiKey]

\* what the two sources yield, the combined string first
ResolvedOf(cfg) ==
    IF ShapePrefixes(cfg) = {} THEN DiscreteOf(cfg)
    ELSE LET p == CHOOSE q \in ShapePrefixes(cfg) : TRUE
             cs == CombinedOf(cfg).cs
         IN  [id |-> Chars(SubSeq(cs, p + 10, p + 14)),
              key |-> Chars(SubSeq(cs, p + 24, Len(cs)))]

\* missing or empty
Blank(v) == v = Undef \/ v = Chars(<<>>)

\* C4: credential resolution is a prioritized fallback.  When the combined
\* string ends in 'Store ID <5 digits> API Key <alphanumeric>', construction
\* succeeds with the id and key being those digits and that alphanumeric
\* run, whatever the discrete fields hold; when the combined string is absent
\* or not of that shape, the adapter is constructed exactly when both
\* discrete fields are non-empty, and its credentials are then those fields.
C4_PrioritizedFallback ==
    adapter.state # "new" =>
        LET cs == CombinedOf(config).cs
        IN  /\ \A p \in ShapePrefixes(config) :
                /\ adapter.state = "ready"
                /\ adapter.credentials =
                       [id |-> Chars(SubSeq(cs, p + 10, p + 14)),
                        key |-> Chars(SubSeq(cs, p + 24, Len(cs)))]
            /\ ShapePrefixes(config) = {} =>
                /\ adapter.state = "ready" => adapter.credentials = DiscreteOf(config)
                /\ adapter.state = "failed" =>
                       Blank(DiscreteOf(config).id) \/ Blank(DiscreteOf(config).key)

C4_Witness ==
    /\ adapter.state = "ready"
    /\ ShapePrefixes(config) # {}
    /\ ~Blank(DiscreteOf(config).id)
    /\ ~Blank(DiscreteOf(config).key)
    /\ adapter.credentials # DiscreteOf(config)

\* C5: construction fails with the configuration error exactly when the
\* resolved id or key is missing or empty, a constructed adapter holds an id
\* and a key that are both non-empty, and no step taken after construction
\* (the public operations and their completions) changes the adapter.
C5_CredentialsNonEmptyAndFixed ==
    /\ [](adapter.state # "new" =>
            LET resolved == ResolvedOf(config)
            IN  /\ adapter.state = "failed" <=> Blank(resolved.id) \/ Blank(resolved.key)
                /\ adapter.state = "failed" => adapter.error = MissingCredentialsMessage
                /\ adapter.state = "ready" =>
                    /\ adapter.credentials.id.t = "chars"
                    /\ adapter.credentials.key.t = "chars"
                    /\ Len(adapter.credentials.id.cs) > 0
                    /\ Len(adapter.credentials.key.cs) > 0)
    /\ [][adapter.state # "new" => adapter' = adapter]_vars

C5_Witness ==
    /\ adapter.state = "ready"
    /\ ~Blank(adapter.credentials.id)
    /\ ~Blank(adapter.credentials.key)
    /\ \E c \in DOMAIN calls : calls[c].pc = "resolved"

\* the item a convertToCanonical call was given, and the object it returned
ItemGiven(c) == calls[c].heap0[calls[c].arg.r]
CanonicalMade(c) == calls[c].heap[calls[c].result.r]

Converted(c) == Began(c, "convertToCanonical") /\ calls[c].pc = "returned"

\* what holds of every conversion: a new object, inventory and update_source
\* set, the input untouched, and a second conversion changing nothing
ConversionBasics(c) ==
    /\ calls[c].result.t = "ref"
    /\ calls[c].result.r > Len(calls[c].heap0)
    /\ Get(CanonicalMade(c), "inventory") = Get(ItemGiven(c), "stock")
    /\ Get(CanonicalMade(c), "update_source") = Str(UpdateSourceTag)
    /\ CallerHeap(c) = calls[c].heap0
    /\ calls[c].requests = <<>>
    /\ LET again == convertToCanonical(calls[c].heap, calls[c].result)
       IN  again.heap[again.value.r] = CanonicalMade(c)

\* C6 as stated: the result of convertToCanonical holds every field of the
\* item with its value unchanged, plus inventory = item.stock and the fixed
\* update_source; the item is not modified and converting the result again
\* yields an equal object.
C6_EveryFieldUnchanged ==
    \A c \in DOMAIN calls :
        Converted(c) =>
            /\ ConversionBasics(c)
            /\ \A f \in DOMAIN ItemGiven(c).o :
                   Get(CanonicalMade(c), f) = ItemGiven(c).o[f]

\* C6 amended: the result holds every field of the item other than
\* inventory and update_source with its value unchanged, and no further
\* field; inventory is item.stock and update_source the fixed tag, replacing
\* whatever the item held under those two names.  The item is not modified
\* and converting the result again yields an equal object.
C6_OtherFieldsUnchanged ==
    \A c \in DOMAIN calls :
        Converted(c) =>
            /\ ConversionBasics(c)
            /\ DOMAIN CanonicalMade(c).o =
                   DOMAIN ItemGiven(c).o \cup {"inventory", "update_source"}
            /\ \A f \in DOMAIN ItemGiven(c).o \ {"inventory", "update_source"} :
                   Get(CanonicalMade(c), f) = ItemGiven(c).o[f]

C6_Witness ==
    \E c \in DOMAIN calls :
        /\ Converted(c)
        /\ Get(ItemGiven(c), "update_source") = Str("API")
        /\ Get(ItemGiven(c), "inventory") = Num(9)
        /\ Get(CanonicalMade(c), "update_source") = Str(UpdateSourceTag)
        /\ Get(CanonicalMade(c), "id") = Str("9")

\* the payload a createOrder call was given
BodyGiven(c) == calls[c].heap0[calls[c].arg.r]
EmbeddedGiven(c) == Get(BodyGiven(c), "_embedded")
\* the relation rel is absent from the payload or an array without entries
NoEntries(c, rel) ==
    \/ rel \notin DOMAIN EmbeddedGiven(c).o
    \/ EmbeddedGiven(c).o[rel].a = <<>>
HasCustomer(c) == "fx:customer" \in DOMAIN EmbeddedGiven(c).o

IsOrdersPost(req) ==
    /\ req.method = "POST"
    /\ req.url = <<Str("https://app.orderdesk.me/api/v2/orders")>>

OrderMade(c) == calls[c].heap[calls[c].made.r]

\* C7: for a payload with an embedded customer whose fx:shipments or
\* fx:payments is absent or has no entries, createOrder raises no error while
\* mapping and issues its POST to the orders endpoint; without a shipment the
\* order's shipping is {}, and without a payment cc_number_masked,
\* processor_response and payment_type are undefined and cc_exp is
\* "undefined/undefined".
C7_OptionalRelations ==
    \A c \in DOMAIN calls :
        (/\ Began(c, "createOrder")
         /\ HasCustomer(c)
         /\ NoEntries(c, "fx:shipments") \/ NoEntries(c, "fx:payments"))
            => /\ calls[c].error.name # "TypeError"
               /\ Len(calls[c].requests) = 1
               /\ IsOrdersPost(calls[c].requests[1])
               /\ NoEntries(c, "fx:shipments") =>
                      Deref(calls[c].heap, Get(OrderMade(c), "shipping")) = Obj(EmptyMap)
               /\ NoEntries(c, "fx:payments") =>
                      /\ Get(OrderMade(c), "cc_number_masked") = Undef
                      /\ Get(OrderMade(c), "processor_response") = Undef
                      /\ Get(OrderMade(c), "payment_type") = Undef
                      /\ Get(OrderMade(c), "cc_exp") = Str("undefined/undefined")

\* the first shipment entry of the payload has link metadata
FirstShipmentLinked(c) ==
    /\ ~NoEntries(c, "fx:shipments")
    /\ "_links" \in DOMAIN calls[c].heap0[EmbeddedGiven(c).o["fx:shipments"].a[1].r].o

FirstShipmentNow(c) == calls[c].heap[EmbeddedGiven(c).o["fx:shipments"].a[1].r]

Mapped(c) == Began(c, "createOrder") /\ calls[c].requests # <<>>

\* C8 as stated: after createOrder the caller's first shipment entry no
\* longer has _links (it is deleted in place), every other object of the
\* payload being as it was.
C8_LinksDeletedInPlace ==
    \A c \in DOMAIN calls :
        (Mapped(c) /\ FirstShipmentLinked(c)) =>
            /\ "_links" \notin DOMAIN FirstShipmentNow(c).o
            /\ \A a \in 1..Len(calls[c].heap0) :
                   a # EmbeddedGiven(c).o["fx:shipments"].a[1].r
                       => calls[c].heap[a] = calls[c].heap0[a]

\* C8 amended: createOrder leaves the whole payload unchanged, the first
\* shipment entry and its _links included.  The order and its shipping are
\* fresh objects; shipping holds the first shipment's fields other than
\* _links (none when there is no shipment).
C8_PayloadUnchanged ==
    \A c \in DOMAIN calls :
        Began(c, "createOrder") =>
            /\ CallerHeap(c) = calls[c].heap0
            /\ Mapped(c) =>
                /\ calls[c].made.r > Len(calls[c].heap0)
                /\ Get(OrderMade(c), "shipping").t = "ref"
                /\ Get(OrderMade(c), "shipping").r > Len(calls[c].heap0)
                /\ LET shipping == Deref(calls[c].heap, Get(OrderMade(c), "shipping"))
                       given == IF NoEntries(c, "fx:shipments") THEN Obj(EmptyMap)
                                ELSE FirstShipmentNow(c)
                   IN  /\ DOMAIN shipping.o = DOMAIN given.o \ {"_links"}
                       /\ \A f \in DOMAIN shipping.o : shipping.o[f] = given.o[f]

C8_Witness ==
    \E c \in DOMAIN calls :
        /\ Mapped(c)
        /\ calls[c].pc = "resolved"
        /\ FirstShipmentLinked(c)
        /\ "_links" \in DOMAIN FirstShipmentNow(c).o
        /\ "_links" \notin DOMAIN Deref(calls[c].heap, Get(OrderMade(c), "shipping")).o

\* the query string a code array should produce: code= and the codes joined
\* by an encoded comma, each code encoded on its own
RECURSIVE ExpectedCodes(_)
ExpectedCodes(codes) ==
    IF codes = <<>> THEN <<>>
    ELSE FormEncode(codes[1].cs)
             \o (IF Len(codes) > 1 THEN <<"%", "2", "C">> ELSE <<>>)
             \o ExpectedCodes(Tail(codes))

IsInventoryGet(req, codes) ==
    /\ req.method = "GET"
    /\ req.url = <<Str("https://app.orderdesk.me/api/v2/inventory-items"), Str("?"),
                   Chars(<<"c", "o", "d", "e", "=">> \o ExpectedCodes(codes))>>

\* C9: fetchInventoryItems issues one GET to inventory-items with the codes
\* comma-joined in the code parameter, and a call that resolves returns an
\* array: the response body's inventory_items, or [] when the body has no
\* such field.
C9_AlwaysAnArray ==
    \A c \in DOMAIN calls :
        Began(c, "fetchInventoryItems") =>
            /\ Len(calls[c].requests) = 1
            /\ IsInventoryGet(calls[c].requests[1], calls[c].arg.a)
            /\ calls[c].pc = "resolved" =>
                /\ calls[c].result.t = "array"
                /\ calls[c].result =
                       IF "inventory_items" \in DOMAIN calls[c].response.doc.o
                       THEN calls[c].response.doc.o.inventory_items
                       ELSE Arr(<<>>)

\* C10: every invocation of a public operation has issued at most one
\* request, convertToCanonical none, and the requests of a running invocation
\* never grow; a step in which the awaited request fails rejects the
\* invocation and leaves its single request as the only one, whatever the
\* other invocations on the adapter are doing.
C10_AtMostOneRequest ==
    /\ [](\A c \in DOMAIN calls :
            /\ Len(calls[c].requests) <= 1
            /\ calls[c].op = "convertToCanonical" => calls[c].requests = <<>>
            /\ calls[c].error.name \in {"FetchError", "SyntaxError"} =>
                   calls[c].pc = "rejected" /\ Len(calls[c].requests) = 1)
    /\ [][\A c \in DOMAIN calls :
            /\ calls[c].pc # "idle" /\ calls'[c].pc # "idle"
                   => calls'[c].requests = calls[c].requests
            /\ calls[c].pc = "rejected" /\ calls'[c].pc # "rejected"
                   => calls'[c].pc = "idle"]_vars

C10_Witness ==
    \E c, d \in DOMAIN calls :
        /\ c # d
        /\ calls[c].pc = "rejected"
        /\ calls[c].error.name = "FetchError"
        /\ Len(calls[c].requests) = 1
        /\ calls[d].pc = "awaitFetch"
        /\ Len(calls[d].requests) = 1

=============================================================================
